---------------------------- MODULE Spec2Model ----------------------------
(***************************************************************************)
(* A model of script.js: the size calculator, the image optimizer, the     *)
(* lazy-load controller and the gallery controller.                        *)
(*                                                                         *)
(* JavaScript numbers are IEEE-754 binary64.  The only non-integer         *)
(* arithmetic of the script is in calculateOptimalSize, and it is modelled *)
(* bit for bit: a positive double is m * 2^e with 2^52 <= m < 2^53, the    *)
(* 53-bit significand m kept as two 27-bit limbs <<hi, lo>>.               *)
(***************************************************************************)
EXTENDS Integers, Sequences, FiniteSets, TLC

\* ------------------------------------------------------------------------
\* Bounds of the model
\* ------------------------------------------------------------------------

\* Natural widths of decoded images are 0..MaxNaturalWidth.
MaxNaturalWidth == 18
\* Natural heights of decoded images are 0..MaxNaturalHeight.
MaxNaturalHeight == 8
\* The maxWidth argument ranges over 0..MaxTargetWidth.
MaxTargetWidth == 9

\* ------------------------------------------------------------------------
\* binary64 arithmetic (the "/" of lines 44 and 46, Math.round of line 46)
\* ------------------------------------------------------------------------

Limb == 2^27

\* 2*a + bit on two-limb naturals
BigDouble(a, bit) ==
    LET lo2 == 2 * a[2] + bit
    IN  <<2 * a[1] + (lo2 \div Limb), lo2 % Limb>>

BigGeq(a, b) == a[1] > b[1] \/ (a[1] = b[1] /\ a[2] >= b[2])

BigSub(a, b) ==
    IF a[2] >= b[2] THEN <<a[1] - b[1], a[2] - b[2]>>
    ELSE <<a[1] - b[1] - 1, a[2] + Limb - b[2]>>

BigInc(a) ==
    IF a[2] + 1 = Limb THEN <<a[1] + 1, 0>> ELSE <<a[1], a[2] + 1>>

\* One step of binary long division of a remainder r by d: the next quotient
\* bit is shifted into q; s counts the bits produced after the binary
\* point.  The division is over once q has 54 bits (53 significand bits and
\* the rounding bit).
DivStep(st, d) ==
    IF st.q[1] >= 2^26 THEN st
    ELSE LET r2 == BigDouble(st.r, 0)
             ge == BigGeq(r2, d)
         IN  [q |-> BigDouble(st.q, IF ge THEN 1 ELSE 0),
              r |-> IF ge THEN BigSub(r2, d) ELSE r2,
              s |-> st.s + 1]

DivStep4(st, d) == DivStep(DivStep(DivStep(DivStep(st, d), d), d), d)

DivStep16(st, d) == DivStep4(DivStep4(DivStep4(DivStep4(st, d), d), d), d)

RECURSIVE DivBits(_, _)
DivBits(st, d) ==
    IF st.q[1] >= 2^26 THEN st ELSE DivBits(DivStep16(st, d), d)

\* The double nearest to n / d (ties to even), for an integer 0 < n < 2^27
\* and a two-limb natural d > 0: [m, e] with value m * 2^e.
FloatDiv(n, d) ==
    LET q0   == IF d[1] = 0 THEN <<0, n \div d[2]>> ELSE <<0, 0>>
        r0   == IF d[1] = 0 THEN <<0, n % d[2]>> ELSE <<0, n>>
        b    == DivBits([q |-> q0, r |-> r0, s |-> 0], d)
        m    == <<b.q[1] \div 2, (b.q[1] % 2) * (Limb \div 2) + (b.q[2] \div 2)>>
        g    == b.q[2] % 2
        up   == g = 1 /\ (b.r # <<0, 0>> \/ m[2] % 2 = 1)
        m1   == IF up THEN BigInc(m) ELSE m
    IN  IF m1[1] = Limb \div 2
        THEN [m |-> <<Limb \div 4, 0>>, e |-> 2 - b.s]
        ELSE [m |-> m1, e |-> 1 - b.s]

\* JavaScript numbers that calculateOptimalSize can produce on its way:
\* zero, a positive finite double, or +Infinity.
Zero == [kind |-> "zero"]
Infinity == [kind |-> "inf"]
Finite(f) == [kind |-> "fin", m |-> f.m, e |-> f.e]

\* a / b for integers a > 0, b >= 0 (line 44: originalWidth / originalHeight)
IntDivInt(a, b) ==
    IF b = 0 THEN Infinity ELSE Finite(FloatDiv(a, <<0, b>>))

\* a / x for an integer a >= 0 and a number x > 0 (line 46: width / ratio)
IntDivNum(a, x) ==
    IF a = 0 \/ x.kind = "inf" THEN Zero
    ELSE LET f == FloatDiv(a, x.m)
         IN  Finite([m |-> f.m, e |-> f.e - x.e])

\* (mutant) Math.floor in the place of Math.round
MathFloor(x) ==
    IF x.kind = "zero" THEN 0
    ELSE LET sh == 0 - x.e
         IN  IF sh >= 54 THEN 0
             ELSE IF sh >= 27 THEN x.m[1] \div 2^(sh - 27)
             ELSE x.m[1] * 2^(27 - sh) + (x.m[2] \div 2^sh)

\* Math.round: the integer nearest to x, a half going towards +Infinity.
MathRound(x) ==
    IF x.kind = "zero" THEN 0
    ELSE LET sh == 0 - x.e
             fl == IF sh >= 27 THEN x.m[1] \div 2^(sh - 27)
                   ELSE x.m[1] * 2^(27 - sh) + (x.m[2] \div 2^sh)
             hb == IF sh >= 28 THEN (x.m[1] \div 2^(sh - 28)) % 2
                   ELSE (x.m[2] \div 2^(sh - 1)) % 2
         IN  IF sh >= 54 THEN 0 ELSE fl + hb

\* ------------------------------------------------------------------------
\* Size calculator
\* ------------------------------------------------------------------------

\* (mutant) every image is given the width maxWidth, narrower ones too
calculateSizeClamped(originalWidth, originalHeight, maxWidth) ==
    IF originalWidth > maxWidth
    THEN [width |-> maxWidth,
          height |-> MathRound(IntDivNum(maxWidth,
                                         IntDivInt(originalWidth, originalHeight)))]
    ELSE [width |-> maxWidth, height |-> originalHeight]

calculateOptimalSize(originalWidth, originalHeight, maxWidth) ==
    IF originalWidth <= maxWidth
    THEN [width |-> originalWidth, height |-> originalHeight]
    ELSE LET ratio  == IntDivInt(originalWidth, originalHeight)
             width  == maxWidth
             height == MathRound(IntDivNum(width, ratio))
         IN  [width |-> width, height |-> height]

\* ------------------------------------------------------------------------
\* State
\* ------------------------------------------------------------------------

VARIABLES
    sizeIn,             \* the arguments of a calculateOptimalSize call
    sizeOut,            \* its result
    calls,              \* the optimizeImage calls made so far, oldest first
    currentGallery,     \* line 151
    currentImageIndex,  \* line 152
    modalDisplay,       \* style.display of #gallery-modal
    bodyOverflow,       \* document.body.style.overflow
    keydownListener,    \* whether handleKeyPress listens for keydown
    galleryImages,      \* the content of #gallery-images
    page,               \* "loading" until DOMContentLoaded, then "ready"
    innerWidth,         \* window.innerWidth
    imgs,               \* the img elements that carry data-src in the markup
    observed,           \* the elements imageObserver observes
    intersecting,       \* the elements the observer last found within its root margin
    queue,              \* the observer's entries not yet delivered
    loads,              \* per element, the loadOptimizedImage calls (history)
    accordionItems,     \* the .accordion-item elements, in document order
    closedSince,        \* per gallery call in flight: closeGallery ran since (history)
    toggles,            \* the indices toggleAccordion was called with (history)
    lastEvent           \* the event handled last (history)

sizeVars == <<sizeIn, sizeOut>>

galleryVars ==
    <<currentGallery, currentImageIndex, modalDisplay, bodyOverflow,
      keydownListener, galleryImages>>

lazyVars == <<page, innerWidth, imgs, observed, intersecting, queue, loads>>

accordionVars == <<accordionItems, toggles>>

vars == <<sizeIn, sizeOut, calls, galleryVars, closedSince, lazyVars, accordionVars,
          lastEvent>>

\* ------------------------------------------------------------------------
\* Size calculator on its own
\* ------------------------------------------------------------------------

NoSize == [width |-> -1, height |-> -1]

SizeInputs ==
    [originalWidth : 0..MaxNaturalWidth, originalHeight : 0..MaxNaturalHeight,
     maxWidth : 0..MaxTargetWidth]

ComputeSize ==
    /\ sizeOut = NoSize
    /\ sizeOut' = calculateOptimalSize(sizeIn.originalWidth,
                                       sizeIn.originalHeight, sizeIn.maxWidth)
    /\ lastEvent' = <<"calculateOptimalSize", "", 0>>
    /\ UNCHANGED <<sizeIn, calls, galleryVars, closedSince, lazyVars, accordionVars>>

\* ------------------------------------------------------------------------
\* Image optimizer (lines 2-36)
\* ------------------------------------------------------------------------

\* What a promise of optimizeImage can carry: the source URL itself, or the
\* data URL of the re-encoded canvas.
NoValue == [type |-> "none", src |-> "", width |-> 0, height |-> 0, quality |-> 0]

Url(src) == [type |-> "url", src |-> src, width |-> 0, height |-> 0, quality |-> 0]

\* canvas.toDataURL('image/jpeg', quality) of a canvas of the given size on
\* which the image of src was drawn (lines 14-25)
toDataURL(src, size, quality) ==
    [type |-> "data:image/jpeg", src |-> src, width |-> size.width,
     height |-> size.height, quality |-> quality]

\* The sizes a decoded image may have, and the maxWidth arguments, in the
\* runs of the optimizer.
DecodedSizes == {[width |-> 1600, height |-> 900], [width |-> 18, height |-> 7]}

TargetWidths == {400, 600, 800, MaxTargetWidth}

\* Line 12, for the images and target widths above.
canvasSize ==
    [natural \in DecodedSizes |->
        [maxWidth \in TargetWidths |->
            calculateOptimalSize(natural.width, natural.height, maxWidth)]]

\* The call as optimizeImage returns it: the promise is pending and neither
\* onload nor onerror has fired (lines 3-5, 34).  caller is the continuation
\* awaiting the promise.
optimizeImage(src, maxWidth, quality, caller) ==
    [src |-> src, maxWidth |-> maxWidth, quality |-> quality, caller |-> caller,
     event |-> "none", promise |-> "pending", value |-> NoValue]

\* img.onload (lines 7-27).  natural is the decoded image's size; completes
\* says whether getContext, drawImage and toDataURL all return normally.
\* When one of them throws, the handler is left before resolve is reached.
imgOnload(c, natural, completes) ==
    LET size == canvasSize[natural][c.maxWidth]
    IN  IF completes
        THEN [c EXCEPT !.event = "load", !.promise = "fulfilled",
                       !.value = toDataURL(c.src, size, c.quality)]
        ELSE [c EXCEPT !.event = "load"]

\* img.onerror (lines 29-32)
imgOnerror(c) ==
    [c EXCEPT !.event = "error", !.promise = "fulfilled", !.value = Url(c.src)]

Undecided(c) == c.event = "none"

\* Defaults of optimizeImage (line 2), the quality in percent.
DefaultMaxWidth == 800
DefaultQuality == 80

NoCaller == [fn |-> "", arg |-> "", el |-> 0, clean |-> FALSE]

\* --- the optimizer called directly ---------------------------------------

\* At most MaxDirectCalls calls are made.
MaxDirectCalls == 2

DirectSources == {"photo.jpg", "no-such-file"}
DirectMaxWidths == {DefaultMaxWidth, MaxTargetWidth}
DirectQualities == {DefaultQuality, 50}

CallOptimize(src, maxWidth, quality) ==
    /\ Len(calls) < MaxDirectCalls
    /\ calls' = Append(calls, optimizeImage(src, maxWidth, quality, NoCaller))
    /\ lastEvent' = <<"optimizeImage", src, 0>>
    /\ UNCHANGED <<sizeVars, accordionVars, galleryVars, closedSince, lazyVars>>

DirectLoad(i, natural, completes) ==
    /\ Undecided(calls[i])
    /\ calls' = [calls EXCEPT ![i] = imgOnload(calls[i], natural, completes)]
    /\ lastEvent' = <<"load", "", i>>
    /\ UNCHANGED <<sizeVars, accordionVars, galleryVars, closedSince, lazyVars>>

DirectError(i) ==
    /\ Undecided(calls[i])
    /\ calls' = [calls EXCEPT ![i] = imgOnerror(calls[i])]
    /\ lastEvent' = <<"error", "", i>>
    /\ UNCHANGED <<sizeVars, accordionVars, galleryVars, closedSince, lazyVars>>

\* ------------------------------------------------------------------------
\* Gallery controller (lines 126-237, 311-319)
\* ------------------------------------------------------------------------

galleryData ==
    [sakura |-> <<"imgs/sharehouses/sakura/exterior.jpg",
                  "imgs/sharehouses/sakura/living.jpg",
                  "imgs/sharehouses/sakura/garden.jpg",
                  "imgs/sharehouses/sakura/room.jpg",
                  "imgs/sharehouses/sakura/tea-room.jpg">>,
     bamboo |-> <<"imgs/sharehouses/bamboo/exterior.jpg",
                  "imgs/sharehouses/bamboo/irori.jpg",
                  "imgs/sharehouses/bamboo/bamboo-garden.jpg",
                  "imgs/sharehouses/bamboo/room.jpg",
                  "imgs/sharehouses/bamboo/study.jpg">>,
     moon   |-> <<"imgs/sharehouses/moon/exterior.jpg",
                  "imgs/sharehouses/moon/moon-deck.jpg",
                  "imgs/sharehouses/moon/kitchen.jpg",
                  "imgs/sharehouses/moon/room.jpg",
                  "imgs/sharehouses/moon/meditation.jpg">>]

\* JavaScript values of the two gallery variables: currentGallery is an
\* array or undefined; currentImageIndex is an integer <<n>> or NaN.
Array(items) == [array |-> TRUE, items |-> items]
Undefined == [array |-> FALSE, items |-> <<>>]
Num(n) == <<n>>
NaN == <<>>

\* galleryData[houseType] (line 156)
Lookup(houseType) ==
    IF houseType \in DOMAIN galleryData THEN Array(galleryData[houseType])
    ELSE Undefined

\* a + n and a % n of JavaScript, n an integer (lines 214, 220): the
\* remainder has the sign of the dividend, and x % 0 is NaN.
JsAdd(a, n) == IF a = NaN THEN NaN ELSE Num(a[1] + n)

\* (mutant) no remainder is taken
JsRemNone(a, n) == a

JsRem(a, n) ==
    IF a = NaN \/ n = 0 THEN NaN
    ELSE IF a[1] >= 0 THEN Num(a[1] % n) ELSE Num(0 - ((0 - a[1]) % n))

\* currentGallery[currentImageIndex] (line 184), as the string the image
\* source is set to
ArrayGet(gallery, index) ==
    IF index # NaN /\ index[1] >= 0 /\ index[1] < Len(gallery.items)
    THEN gallery.items[index[1] + 1]
    ELSE "undefined"

Loading == [type |-> "loading", src |-> "", width |-> 0, height |-> 0, quality |-> 0]

\* The gallery's profile for the optimizer (line 195), the quality in percent.
GalleryMaxWidth == 800
GalleryQuality == 90

\* At most MaxInFlight optimizeImage calls of the gallery are unresolved.
MaxInFlight == 2

\* The awaiting continuations: openGallery (line 162) for houseType, or
\* prevImage/nextImage (lines 215, 221).  clean is history: no openGallery,
\* prevImage or nextImage ran since this openGallery started.
OpenCaller(houseType) ==
    [fn |-> "openGallery", arg |-> houseType, el |-> 0, clean |-> TRUE]
NavCaller(fn) == [fn |-> fn, arg |-> "", el |-> 0, clean |-> FALSE]

Disturbed(cs) == [i \in DOMAIN cs |-> [cs[i] EXCEPT !.caller.clean = FALSE]]

\* (mutant) an undefined currentGallery is read as an empty one
displayOptimizedImageLenient(gallery, index, caller) ==
    /\ Len(calls) < MaxInFlight
    /\ galleryImages' = Loading
    /\ calls' = Append(Disturbed(calls),
                       optimizeImage(ArrayGet(gallery, index), GalleryMaxWidth,
                                     GalleryQuality, caller))

\* displayOptimizedImage up to its await (lines 182-195), for the values the
\* caller has just given to currentGallery and currentImageIndex.  On an
\* undefined currentGallery line 184 throws and nothing is displayed.
displayOptimizedImage(gallery, index, caller) ==
    IF gallery.array
    THEN /\ Len(calls) < MaxInFlight
         /\ galleryImages' = Loading
         /\ calls' = Append(Disturbed(calls),
                            optimizeImage(ArrayGet(gallery, index), GalleryMaxWidth,
                                          GalleryQuality, caller))
    ELSE /\ galleryImages' = galleryImages
         /\ calls' = Disturbed(calls)

\* openGallery up to its await (lines 155-162)
openGallery(houseType) ==
    /\ currentGallery' = Lookup(houseType)
    /\ currentImageIndex' = Num(0)
    /\ displayOptimizedImage(Lookup(houseType), Num(0), OpenCaller(houseType))
    /\ UNCHANGED <<modalDisplay, bodyOverflow, keydownListener>>

\* (mutant) closing also rewinds the gallery
closeGalleryRewinds ==
    /\ modalDisplay' = "none"
    /\ bodyOverflow' = "auto"
    /\ keydownListener' = FALSE
    /\ currentImageIndex' = Num(0)
    /\ UNCHANGED <<currentGallery, galleryImages, calls>>

\* (mutant) the key handler stays registered
closeGalleryKeepsListener ==
    /\ modalDisplay' = "none"
    /\ bodyOverflow' = "auto"
    /\ UNCHANGED <<keydownListener, currentGallery, currentImageIndex, galleryImages, calls>>

\* closeGallery (lines 172-179)
closeGallery ==
    /\ modalDisplay' = "none"
    /\ bodyOverflow' = "auto"
    /\ keydownListener' = FALSE
    /\ UNCHANGED <<currentGallery, currentImageIndex, galleryImages, calls>>

\* (mutant) length is not added before the remainder is taken
prevIndexNoAdd(index, length) == JsRem(JsAdd(index, -1), length)

\* The index expressions of lines 214 and 220
prevIndex(index, length) == JsRem(JsAdd(JsAdd(index, -1), length), length)
nextIndex(index, length) == JsRem(JsAdd(index, 1), length)

\* prevImage and nextImage up to their await (lines 213-222).  On an
\* undefined currentGallery, reading its length throws: nothing changes.
prevImage ==
    IF currentGallery.array
    THEN /\ currentImageIndex' =
                prevIndex(currentImageIndex, Len(currentGallery.items))
         /\ displayOptimizedImage(currentGallery, currentImageIndex',
                                  NavCaller("prevImage"))
         /\ UNCHANGED <<currentGallery, modalDisplay, bodyOverflow, keydownListener>>
    ELSE UNCHANGED <<galleryVars, calls>>

nextImage ==
    IF currentGallery.array
    THEN /\ currentImageIndex' =
                nextIndex(currentImageIndex, Len(currentGallery.items))
         /\ displayOptimizedImage(currentGallery, currentImageIndex',
                                  NavCaller("nextImage"))
         /\ UNCHANGED <<currentGallery, modalDisplay, bodyOverflow, keydownListener>>
    ELSE UNCHANGED <<galleryVars, calls>>

\* (mutant) the two arrow keys are swapped
handleKeyPressSwapped(key) ==
    CASE key = "Escape"     -> closeGallery
      [] key = "ArrowLeft"  -> nextImage
      [] key = "ArrowRight" -> prevImage
      [] OTHER              -> UNCHANGED <<galleryVars, calls>>

\* handleKeyPress (lines 225-237)
handleKeyPress(key) ==
    CASE key = "Escape"     -> closeGallery
      [] key = "ArrowLeft"  -> prevImage
      [] key = "ArrowRight" -> nextImage
      [] OTHER              -> UNCHANGED <<galleryVars, calls>>

\* The click listener of the modal (lines 314-318); target is the element
\* clicked: the modal itself (its backdrop) or something inside it.
modalClick(target) ==
    IF target = "gallery-modal" THEN closeGallery
    ELSE UNCHANGED <<galleryVars, calls>>

Remove(cs, i) == SubSeq(cs, 1, i - 1) \o SubSeq(cs, i + 1, Len(cs))

\* (mutant) the page scroll is left enabled
ContinueScrollable(i, c) ==
    /\ galleryImages' = c.value
    /\ calls' = Remove(calls, i)
    /\ IF c.caller.fn = "openGallery"
       THEN /\ modalDisplay' = "block"
            /\ keydownListener' = TRUE
            /\ UNCHANGED bodyOverflow
       ELSE UNCHANGED <<modalDisplay, bodyOverflow, keydownListener>>
    /\ UNCHANGED <<currentGallery, currentImageIndex>>

\* The rest of displayOptimizedImage (lines 196-204) and of its caller
\* (lines 164-168) once the promise of call i is fulfilled with c.value.
\* They run as microtasks of the task that fulfilled it.
Continue(i, c) ==
    /\ galleryImages' = c.value
    /\ calls' = Remove(calls, i)
    /\ IF c.caller.fn = "openGallery"
       THEN /\ modalDisplay' = "block"
            /\ bodyOverflow' = "hidden"
            /\ keydownListener' = TRUE
       ELSE UNCHANGED <<modalDisplay, bodyOverflow, keydownListener>>
    /\ UNCHANGED <<currentGallery, currentImageIndex>>

\* (mutant) only the call requested last is displayed
SettledNewestOnly(i, c) ==
    IF c.promise = "fulfilled" /\ i = Len(calls) THEN Continue(i, c)
    ELSE /\ calls' = Remove(calls, i)
         /\ UNCHANGED galleryVars

\* The load or error event of the image of call i, with what follows it.
\* A promise left pending by its handler is never settled: its continuation
\* never runs, and the call is dropped from the calls in flight.
Settled(i, c) ==
    IF c.promise = "fulfilled" THEN Continue(i, c)
    ELSE /\ calls' = Remove(calls, i)
         /\ UNCHANGED galleryVars

\* --- the events of the page ----------------------------------------------

\* The natural size of the gallery's photographs.
GallerySizes == {[width |-> 1600, height |-> 900]}

HouseTypes == {"sakura", "penthouse"}
Keys == {"Escape", "ArrowLeft", "ArrowRight", "Enter"}
ClickTargets == {"gallery-modal", "gallery-images"}

\* History of the calls in flight: a call that starts has seen no
\* closeGallery; closeGallery is seen by every call in flight.
Started ==
    closedSince' = IF Len(calls') > Len(calls) THEN Append(closedSince, FALSE)
                   ELSE closedSince

ClosedAll == closedSince' = [k \in DOMAIN closedSince |-> TRUE]

OpenGallery(houseType) ==
    /\ openGallery(houseType)
    /\ Started
    /\ lastEvent' = <<"openGallery", houseType, 0>>
    /\ UNCHANGED <<sizeVars, accordionVars, lazyVars>>

CloseGallery ==
    /\ closeGallery
    /\ ClosedAll
    /\ lastEvent' = <<"closeGallery", "", 0>>
    /\ UNCHANGED <<sizeVars, accordionVars, lazyVars>>

PrevImage ==
    /\ prevImage
    /\ Started
    /\ lastEvent' = <<"prevImage", "", 0>>
    /\ UNCHANGED <<sizeVars, accordionVars, lazyVars>>

NextImage ==
    /\ nextImage
    /\ Started
    /\ lastEvent' = <<"nextImage", "", 0>>
    /\ UNCHANGED <<sizeVars, accordionVars, lazyVars>>

KeyDown(key) ==
    /\ keydownListener
    /\ handleKeyPress(key)
    /\ IF key = "Escape" THEN ClosedAll ELSE Started
    /\ lastEvent' = <<"keydown", key, 0>>
    /\ UNCHANGED <<sizeVars, accordionVars, lazyVars>>

ModalClick(target) ==
    /\ modalClick(target)
    /\ IF target = "gallery-modal" THEN ClosedAll ELSE UNCHANGED closedSince
    /\ lastEvent' = <<"click", target, 0>>
    /\ UNCHANGED <<sizeVars, accordionVars, lazyVars>>

GalleryLoad(i, natural, completes) ==
    /\ Undecided(calls[i])
    /\ Settled(i, imgOnload(calls[i], natural, completes))
    /\ closedSince' = Remove(closedSince, i)
    /\ lastEvent' = <<IF completes THEN "load" ELSE "load, handler threw",
                       calls[i].caller.fn, 0>>
    /\ UNCHANGED <<sizeVars, accordionVars, lazyVars>>

GalleryError(i) ==
    /\ Undecided(calls[i])
    /\ Settled(i, imgOnerror(calls[i]))
    /\ closedSince' = Remove(closedSince, i)
    /\ lastEvent' = <<"error", calls[i].caller.fn, 0>>
    /\ UNCHANGED <<sizeVars, accordionVars, lazyVars>>

\* ------------------------------------------------------------------------
\* Lazy-load controller (lines 51-99, 279-309)
\* ------------------------------------------------------------------------

\* The page has the img elements 1..NumImages with a data-src attribute.
NumImages == 2
Images == 1..NumImages

\* The runs stop loading an element after MaxLoads loads of it.
MaxLoads == 2

\* The viewport widths of the runs: one for each case of lines 288-294.
ViewportWidths == {500, 1000, 1400}

\* An attribute is <<>> when absent and <<v>> when present with value v.
\* The markup: element e has data-src "lazy/e.jpg"; the even elements
\* override data-max-width and data-quality (in percent).
DataSrc(e) ==
    IF e = 1 THEN "lazy/1.jpg" ELSE IF e = 2 THEN "lazy/2.jpg" ELSE "lazy/n.jpg"

Markup(e) ==
    [dataSrc      |-> <<DataSrc(e)>>,
     dataMaxWidth |-> IF e % 2 = 0 THEN <<600>> ELSE <<>>,
     dataQuality  |-> IF e % 2 = 0 THEN <<50>> ELSE <<>>,
     src          |-> NoValue,
     opacity      |-> "",
     filter       |-> "",
     transition   |-> ""]

\* value || default (lines 73-74)
OrDefault(attr, default) == IF attr = <<>> THEN default ELSE attr[1]

\* The responsive width (lines 285-294)
responsiveMaxWidth(screenWidth) ==
    IF screenWidth < 768 THEN 400
    ELSE IF screenWidth < 1200 THEN 600
    ELSE 800

\* (mutant) an element's own data-max-width is kept
handleResponsiveKeepsOverride(elements, screenWidth) ==
    [e \in Images |->
        IF elements[e].dataSrc # <<>> /\ elements[e].dataMaxWidth = <<>>
        THEN [elements[e] EXCEPT !.dataMaxWidth = <<responsiveMaxWidth(screenWidth)>>]
        ELSE elements[e]]

\* handleResponsiveImages (lines 280-298): every img[data-src] gets the
\* data-max-width of the current viewport width.
handleResponsiveImages(elements, screenWidth) ==
    [e \in Images |->
        IF elements[e].dataSrc # <<>>
        THEN [elements[e] EXCEPT !.dataMaxWidth = <<responsiveMaxWidth(screenWidth)>>]
        ELSE elements[e]]

LazyCaller(e) == [fn |-> "loadOptimizedImage", arg |-> "", el |-> e, clean |-> FALSE]

\* loadOptimizedImage up to its await (lines 71-81) on the state st
\* = [imgs, calls, loads, observed].
loadOptimizedImage(st, e) ==
    LET el          == st.imgs[e]
        originalSrc == OrDefault(el.dataSrc, "undefined")
        maxWidth    == OrDefault(el.dataMaxWidth, DefaultMaxWidth)
        quality     == OrDefault(el.dataQuality, DefaultQuality)
    IN  [st EXCEPT !.imgs[e].opacity = "0.5",
                   !.imgs[e].filter = "blur(5px)",
                   !.calls = Append(@, optimizeImage(originalSrc, maxWidth, quality,
                                                     LazyCaller(e))),
                   !.loads[e] = @ + 1]

\* (mutant) the element stays observed
observeEntryKeepsObserving(st, entry) ==
    IF entry.isIntersecting THEN loadOptimizedImage(st, entry.target) ELSE st

\* The observer's callback on one entry (lines 56-62)
observeEntry(st, entry) ==
    IF entry.isIntersecting
    THEN [loadOptimizedImage(st, entry.target) EXCEPT !.observed = @ \ {entry.target}]
    ELSE st

\* entries.forEach (line 56)
RECURSIVE forEachEntry(_, _)
forEachEntry(st, entries) ==
    IF entries = <<>> THEN st
    ELSE forEachEntry(observeEntry(st, Head(entries)), Tail(entries))

\* The rest of loadOptimizedImage (lines 83-89) once its promise is
\* fulfilled with value.
loadContinue(el, value) ==
    [el EXCEPT !.src = value, !.opacity = "1", !.filter = "none",
               !.transition = "opacity 0.3s ease, filter 0.3s ease",
               !.dataSrc = <<>>]

\* (mutant) the fallback leaves the element dimmed
loadFallbackDimmed(el, originalSrc) ==
    [el EXCEPT !.src = Url(originalSrc), !.dataSrc = <<>>]

\* The catch clause of loadOptimizedImage (lines 91-98); originalSrc is the
\* data-src read at line 72.
loadFallback(el, originalSrc) ==
    [el EXCEPT !.src = Url(originalSrc), !.opacity = "1", !.filter = "none",
               !.dataSrc = <<>>]

Queued(e) == \E k \in 1..Len(queue) : queue[k].target = e

\* --- the events of the page ----------------------------------------------

\* The DOMContentLoaded handler (lines 301-309): setupLazyLoading observes
\* every img[data-src], for each of which the observer queues a first
\* entry; handleResponsiveImages; the resize listener.
RECURSIVE FirstEntries(_)
FirstEntries(e) ==
    IF e > NumImages THEN <<>>
    ELSE <<[target |-> e, isIntersecting |-> e \in intersecting]>> \o FirstEntries(e + 1)

DOMContentLoaded ==
    /\ page = "loading"
    /\ page' = "ready"
    /\ observed' = {e \in Images : imgs[e].dataSrc # <<>>}
    /\ queue' = FirstEntries(1)
    /\ imgs' = handleResponsiveImages(imgs, innerWidth)
    /\ lastEvent' = <<"DOMContentLoaded", "", 0>>
    /\ UNCHANGED <<sizeVars, accordionVars, galleryVars, closedSince, calls, innerWidth, intersecting, loads>>

\* The window is resized to width w (line 309).
Resize(w) ==
    /\ innerWidth' = w
    /\ imgs' = IF page = "ready" THEN handleResponsiveImages(imgs, w) ELSE imgs
    /\ lastEvent' = <<"resize", "", w>>
    /\ UNCHANGED <<sizeVars, accordionVars, galleryVars, closedSince, calls, page, observed, intersecting, queue, loads>>

\* The observer finds that its target e has entered or left the root
\* margin, and queues an entry for it; it computes nothing for an element
\* it does not observe.  An element has at most one entry in a batch, the
\* batch being delivered before the next intersection update.
Scroll(e) ==
    /\ e \in observed
    /\ ~Queued(e)
    /\ intersecting' = IF e \in intersecting THEN intersecting \ {e}
                       ELSE intersecting \cup {e}
    /\ queue' = IF e \in observed
                THEN Append(queue, [target |-> e, isIntersecting |-> e \notin intersecting])
                ELSE queue
    /\ lastEvent' = <<"scroll", "", e>>
    /\ UNCHANGED <<sizeVars, accordionVars, galleryVars, closedSince, calls, page, innerWidth, imgs, observed, loads>>

\* The observer delivers its queued entries (lines 55-62).
Intersection ==
    /\ queue # <<>>
    /\ \A k \in 1..Len(queue) : loads[queue[k].target] < MaxLoads
    /\ LET st == forEachEntry([imgs |-> imgs, calls |-> calls, loads |-> loads,
                               observed |-> observed], queue)
       IN  /\ imgs' = st.imgs
           /\ calls' = st.calls
           /\ loads' = st.loads
           /\ observed' = st.observed
    /\ queue' = <<>>
    /\ lastEvent' = <<"intersection", "", Len(queue)>>
    /\ UNCHANGED <<sizeVars, accordionVars, galleryVars, closedSince, page, innerWidth, intersecting>>

\* The load or error event of the image of call i of loadOptimizedImage,
\* with the continuation when the promise is fulfilled.  updateThrows says
\* whether the display update throws (at line 83): then the catch clause
\* runs instead.
LazySettled(i, c, updateThrows) ==
    /\ calls' = Remove(calls, i)
    /\ imgs' = IF c.promise # "fulfilled" THEN imgs
               ELSE IF updateThrows
               THEN [imgs EXCEPT ![c.caller.el] = loadFallback(@, c.src)]
               ELSE [imgs EXCEPT ![c.caller.el] = loadContinue(@, c.value)]
    /\ UNCHANGED <<sizeVars, accordionVars, galleryVars, closedSince, page, innerWidth,
                   observed, intersecting, queue, loads>>

\* The natural size of the lazily loaded photographs.
LazySizes == {[width |-> 1600, height |-> 900]}

Outcome(event, updateThrows) ==
    IF updateThrows THEN event \o ", update threw" ELSE event

LazyLoad(i, natural, completes, updateThrows) ==
    /\ Undecided(calls[i])
    /\ completes \/ ~updateThrows
    /\ LazySettled(i, imgOnload(calls[i], natural, completes), updateThrows)
    /\ lastEvent' = <<Outcome(IF completes THEN "load" ELSE "load, handler threw",
                              updateThrows),
                      "loadOptimizedImage", calls[i].caller.el>>

LazyError(i, updateThrows) ==
    /\ Undecided(calls[i])
    /\ LazySettled(i, imgOnerror(calls[i]), updateThrows)
    /\ lastEvent' = <<Outcome("error", updateThrows), "loadOptimizedImage",
                      calls[i].caller.el>>

\* ------------------------------------------------------------------------
\* Accordion (lines 101-124)
\* ------------------------------------------------------------------------

\* The page has the .accordion-item elements 0..NumItems-1, each with one
\* .accordion-content and one .accordion-icon.
NumItems == 3
ItemIndices == 0..(NumItems - 1)

\* The runs make at most MaxToggles calls of toggleAccordion.
MaxToggles == 3

\* An item: whether the item and its content carry the class "active", and
\* the text of its icon.
Collapsed == [active |-> FALSE, contentActive |-> FALSE, icon |-> "+"]
Expanded == [active |-> TRUE, contentActive |-> TRUE, icon |-> "x"]

\* (mutant) the other items are left as they are
closeAllNone(items) == items

\* accordionItems.forEach (lines 112-116)
closeAll(items) == [i \in DOMAIN items |-> Collapsed]

\* (mutant) the clicked item is opened whether or not it was active
toggleAlwaysOpens(items, index) ==
    IF index \notin DOMAIN items THEN items
    ELSE [closeAll(items) EXCEPT ![index] = Expanded]

\* toggleAccordion (lines 102-124).  For an index that names no item,
\* currentItem is undefined and line 105 throws before anything is changed.
toggleAccordion(items, index) ==
    IF index \notin DOMAIN items THEN items
    ELSE LET isActive == items[index].active
         IN  IF ~isActive
             THEN [closeAll(items) EXCEPT ![index] = Expanded]
             ELSE closeAll(items)

\* The indices of the runs: those of the items, and one before and one
\* after them.
ToggleIndices == (0 - 1)..NumItems

\* The pages of the runs: no item or one item is expanded in the markup.
AccordionPages ==
    {[i \in ItemIndices |-> Collapsed]}
       \cup {[i \in ItemIndices |-> IF i = j THEN Expanded ELSE Collapsed] :
                j \in ItemIndices}

ToggleAccordion(index) ==
    /\ Len(toggles) < MaxToggles
    /\ accordionItems' = toggleAccordion(accordionItems, index)
    /\ toggles' = Append(toggles, index)
    /\ lastEvent' = <<"toggleAccordion", "", index>>
    /\ UNCHANGED <<sizeVars, calls, galleryVars, closedSince, lazyVars>>

\* ------------------------------------------------------------------------
\* Specifications
\* ------------------------------------------------------------------------

IdleSize == sizeIn = [originalWidth |-> 0, originalHeight |-> 0, maxWidth |-> 0]
            /\ sizeOut = NoSize

NoEvent == <<"", "", 0>>

IdleAccordion ==
    /\ accordionItems = [i \in ItemIndices |-> Collapsed]
    /\ toggles = <<>>

IdleLazy ==
    /\ page = "loading"
    /\ innerWidth = 1400
    /\ imgs = [e \in Images |-> Markup(e)]
    /\ observed = {}
    /\ intersecting = {}
    /\ queue = <<>>
    /\ loads = [e \in Images |-> 0]

\* Lines 151-152, and the page as it is before any gallery was opened.
IdleGallery ==
    /\ currentGallery = Array(<<>>)
    /\ currentImageIndex = Num(0)
    /\ modalDisplay = "none"
    /\ bodyOverflow = "auto"
    /\ keydownListener = FALSE
    /\ galleryImages = NoValue
    /\ closedSince = <<>>

InitSize ==
    /\ sizeIn \in SizeInputs
    /\ sizeOut = NoSize
    /\ calls = <<>>
    /\ IdleGallery
    /\ IdleLazy
    /\ IdleAccordion
    /\ lastEvent = NoEvent

NextSize == ComputeSize

SpecSize == InitSize /\ [][NextSize]_vars

InitOptimize ==
    /\ IdleSize
    /\ calls = <<>>
    /\ IdleGallery
    /\ IdleLazy
    /\ IdleAccordion
    /\ lastEvent = NoEvent

DecodeEvent(i) ==
    \/ \E natural \in DecodedSizes, completes \in BOOLEAN :
          DirectLoad(i, natural, completes)
    \/ DirectError(i)

NextOptimize ==
    \/ \E src \in DirectSources, maxWidth \in DirectMaxWidths,
          quality \in DirectQualities : CallOptimize(src, maxWidth, quality)
    \/ \E i \in 1..Len(calls) : DecodeEvent(i)

SpecOptimize == InitOptimize /\ [][NextOptimize]_vars

\* The browser fires load or error for every image whose src was set.
FairSpecOptimize ==
    SpecOptimize /\ \A i \in 1..MaxDirectCalls : WF_vars(i <= Len(calls) /\ DecodeEvent(i))

InitGallery ==
    /\ IdleSize
    /\ calls = <<>>
    /\ IdleGallery
    /\ IdleLazy
    /\ IdleAccordion
    /\ lastEvent = NoEvent

NextGallery ==
    \/ \E houseType \in HouseTypes : OpenGallery(houseType)
    \/ CloseGallery
    \/ PrevImage
    \/ NextImage
    \/ \E key \in Keys : KeyDown(key)
    \/ \E target \in ClickTargets : ModalClick(target)
    \/ \E i \in 1..Len(calls), natural \in GallerySizes, completes \in BOOLEAN :
          GalleryLoad(i, natural, completes)
    \/ \E i \in 1..Len(calls) : GalleryError(i)

Spec == InitGallery /\ [][NextGallery]_vars

InitLazy ==
    /\ IdleSize
    /\ calls = <<>>
    /\ IdleGallery
    /\ page = "loading"
    /\ innerWidth \in ViewportWidths
    /\ imgs = [e \in Images |-> Markup(e)]
    /\ observed = {}
    /\ intersecting \in SUBSET Images
    /\ queue = <<>>
    /\ loads = [e \in Images |-> 0]
    /\ IdleAccordion
    /\ lastEvent = NoEvent

NextLazy ==
    \/ DOMContentLoaded
    \/ \E w \in ViewportWidths : Resize(w)
    \/ \E e \in Images : Scroll(e)
    \/ Intersection
    \/ \E i \in 1..Len(calls), natural \in LazySizes, completes \in BOOLEAN,
          updateThrows \in BOOLEAN : LazyLoad(i, natural, completes, updateThrows)
    \/ \E i \in 1..Len(calls), updateThrows \in BOOLEAN : LazyError(i, updateThrows)

SpecLazy == InitLazy /\ [][NextLazy]_vars

InitAccordion ==
    /\ IdleSize
    /\ calls = <<>>
    /\ IdleGallery
    /\ IdleLazy
    /\ accordionItems \in AccordionPages
    /\ toggles = <<>>
    /\ lastEvent = NoEvent

NextAccordion == \E index \in ToggleIndices : ToggleAccordion(index)

SpecAccordion == InitAccordion /\ [][NextAccordion]_vars

\* The image event of the optimizeImage call made for element e.
ImageEvent(e) ==
    \E i \in 1..Len(calls) :
       /\ calls[i].caller.el = e
       /\ \/ \E natural \in LazySizes, completes \in BOOLEAN, updateThrows \in BOOLEAN :
                LazyLoad(i, natural, completes, updateThrows)
          \/ \E updateThrows \in BOOLEAN : LazyError(i, updateThrows)

\* The browser fires load or error for every image whose src was set.
FairSpecLazy == SpecLazy /\ \A e \in Images : WF_vars(ImageEvent(e))

\* ------------------------------------------------------------------------
\* Properties of the gallery (under Spec)
\* ------------------------------------------------------------------------

IndexNamesElement ==
    /\ currentGallery.array
    /\ currentImageIndex # NaN
    /\ currentImageIndex[1] >= 0
    /\ currentImageIndex[1] < Len(currentGallery.items)

\* C1 as stated: in every reachable state the index is an integer with
\* 0 <= index < length of the current collection.
C1_IndexAlwaysValid == IndexNamesElement

\* C1 amended: whenever the current collection is a non-empty array (from
\* the first openGallery of a configured key on), the index is an integer
\* with 0 <= index < length of the current collection.
C1_IndexValidOnceOpened ==
    (currentGallery.array /\ Len(currentGallery.items) > 0) => IndexNamesElement

C1_Witness ==
    /\ lastEvent = <<"prevImage", "", 0>>
    /\ currentGallery = Array(galleryData.sakura)
    /\ currentImageIndex = Num(4)

IsNext(e) == e = <<"nextImage", "", 0>> \/ e = <<"keydown", "ArrowRight", 0>>
IsPrev(e) == e = <<"prevImage", "", 0>> \/ e = <<"keydown", "ArrowLeft", 0>>

\* C2: with a collection of length n >= 1, next takes the index i to
\* (i + 1) mod n (n-1 to 0), prev takes it to (i - 1 + n) mod n (0 to n-1),
\* and the index never goes negative; on three elements next visits
\* 0, 1, 2, 0.
C2_NextPrevWrap ==
    [][LET n == Len(currentGallery.items)
           i == currentImageIndex
           j == currentImageIndex'
       IN  (currentGallery.array /\ n >= 1 /\ (IsNext(lastEvent') \/ IsPrev(lastEvent')))
           => /\ i # NaN /\ j # NaN
              /\ j[1] >= 0 /\ j[1] < n
              /\ IsNext(lastEvent') => /\ j[1] = (i[1] + 1) % n
                                       /\ i[1] = n - 1 => j[1] = 0
              /\ IsPrev(lastEvent') => /\ j[1] = (i[1] - 1 + n) % n
                                       /\ i[1] = 0 => j[1] = n - 1
              /\ nextIndex(Num(0), 3) = Num(1)
              /\ nextIndex(Num(1), 3) = Num(2)
              /\ nextIndex(Num(2), 3) = Num(0)
              /\ prevIndex(Num(0), 3) = Num(2)]_vars

C2_Witness ==
    /\ lastEvent = <<"nextImage", "", 0>>
    /\ currentGallery = Array(galleryData.sakura)
    /\ currentImageIndex = Num(0)
    /\ modalDisplay = "block"

\* The step fulfils the promise awaited by the openGallery call calls[i],
\* so that this openGallery runs to its end.
OpenCompletes(i) ==
    /\ lastEvent'[1] \in {"load", "error"}
    /\ calls[i].caller.fn = "openGallery"
    /\ lastEvent'[2] = "openGallery"
    /\ calls' = Remove(calls, i)

ShownAndLocked ==
    modalDisplay = "block" /\ bodyOverflow = "hidden" /\ keydownListener

\* C8 as stated: when openGallery(key) has completed, the collection is
\* that of key, the index is 0, the modal is shown, page scroll is disabled
\* and the key handler is registered, whatever was interleaved.
C8_OpenCompletesOnItsCollection ==
    [][\A i \in 1..Len(calls) :
          OpenCompletes(i) =>
             /\ ShownAndLocked'
             /\ currentGallery' = Array(galleryData[calls[i].caller.arg])
             /\ currentImageIndex' = Num(0)]_vars

\* C8 amended: when openGallery(key) has completed, the modal is shown, page
\* scroll is disabled and the key handler is registered; the collection is
\* that of key and the index is 0 provided no other openGallery, prevImage
\* or nextImage ran while its image optimization was pending.
C8_OpenCompletesShown ==
    [][\A i \in 1..Len(calls) :
          OpenCompletes(i) =>
             /\ ShownAndLocked'
             /\ calls[i].caller.clean =>
                   /\ currentGallery' = Array(galleryData[calls[i].caller.arg])
                   /\ currentImageIndex' = Num(0)]_vars

C8_Witness ==
    /\ lastEvent = <<"load", "openGallery", 0>>
    /\ ShownAndLocked
    /\ currentGallery = Array(galleryData.sakura)
    /\ currentImageIndex = Num(0)
    /\ galleryImages.type = "data:image/jpeg"
    /\ calls = <<>>

IsClose(e) ==
    \/ e = <<"closeGallery", "", 0>>
    \/ e = <<"keydown", "Escape", 0>>
    \/ e = <<"click", "gallery-modal", 0>>

Closed == modalDisplay = "none" /\ bodyOverflow = "auto" /\ ~keydownListener

\* C9: closeGallery, called directly, by Escape or by a click on the
\* backdrop, hides the modal, restores page scroll and unregisters the key
\* handler, and leaves collection and index unchanged.
C9_CloseKeepsSession ==
    [][IsClose(lastEvent') =>
          /\ Closed'
          /\ currentGallery' = currentGallery
          /\ currentImageIndex' = currentImageIndex]_vars

C9_Witness ==
    /\ lastEvent = <<"click", "gallery-modal", 0>>
    /\ Closed
    /\ currentGallery = Array(galleryData.sakura)
    /\ currentImageIndex = Num(2)

\* C10: while the handler is registered, Escape closes, ArrowLeft is prev,
\* ArrowRight is next, and any other key changes nothing of the gallery.
C10_KeysDispatch ==
    [][lastEvent'[1] = "keydown" =>
          LET key == lastEvent'[2]
              n   == Len(currentGallery.items)
              i   == currentImageIndex
              navigates == currentGallery.array /\ n >= 1 /\ i # NaN
              flagsKept == /\ modalDisplay' = modalDisplay
                           /\ bodyOverflow' = bodyOverflow
                           /\ keydownListener' = keydownListener
                           /\ currentGallery' = currentGallery
          IN  /\ keydownListener
              /\ key = "Escape" =>
                    Closed' /\ currentGallery' = currentGallery
                            /\ currentImageIndex' = currentImageIndex
                            /\ calls' = calls
              /\ (key = "ArrowLeft" /\ navigates) =>
                    /\ currentImageIndex' = Num((i[1] - 1 + n) % n)
                    /\ Len(calls') = Len(calls) + 1
                    /\ calls'[Len(calls')].src = currentGallery.items[currentImageIndex'[1] + 1]
                    /\ flagsKept
              /\ (key = "ArrowRight" /\ navigates) =>
                    /\ currentImageIndex' = Num((i[1] + 1) % n)
                    /\ Len(calls') = Len(calls) + 1
                    /\ calls'[Len(calls')].src = currentGallery.items[currentImageIndex'[1] + 1]
                    /\ flagsKept
              /\ key \notin {"Escape", "ArrowLeft", "ArrowRight"} =>
                    galleryVars' = galleryVars /\ calls' = calls]_vars

C10_Witness ==
    /\ lastEvent = <<"keydown", "Enter", 0>>
    /\ ShownAndLocked
    /\ currentGallery = Array(galleryData.sakura)
    /\ currentImageIndex = Num(3)

\* The step is the image event of the gallery call calls[i].
Resolves(i) ==
    /\ lastEvent'[1] \in {"load", "error"}
    /\ lastEvent'[2] = calls[i].caller.fn
    /\ calls' = Remove(calls, i)
    /\ closedSince' = Remove(closedSince, i)

FlagsKept ==
    /\ modalDisplay' = modalDisplay
    /\ bodyOverflow' = bodyOverflow
    /\ keydownListener' = keydownListener

\* C13 as stated: the resolution of a gallery call after closeGallery, be
\* it a call of openGallery or of prevImage/nextImage, changes at most the
\* content of #gallery-images: the modal is not shown again, page scroll
\* is not disabled again and the key handler is not registered again.
C13_LateResolutionHarmless ==
    [][\A i \in 1..Len(calls) :
          (Resolves(i) /\ closedSince[i]) =>
             /\ FlagsKept
             /\ currentGallery' = currentGallery
             /\ currentImageIndex' = currentImageIndex]_vars

Displays(value, src) ==
    /\ value.type \in {"data:image/jpeg", "url"}
    /\ value.src = src

\* C14: every resolution of a gallery call overwrites the display, in
\* resolution order, and nothing else replaces a displayed image but the
\* loading placeholder of a new request; so once all calls in flight have
\* resolved, the image displayed is that of the call that resolved last,
\* which need not be the entry at the current index.
C14_LastResolvedWins ==
    [][/\ \A i \in 1..Len(calls) :
             Resolves(i) => Displays(galleryImages', calls[i].src)
       /\ lastEvent'[1] \notin {"load", "error"} =>
             \/ galleryImages' = galleryImages
             \/ galleryImages' = Loading /\ Len(calls') = Len(calls) + 1]_vars

\* The image of entry 1 was requested before that of entry 2 and resolved
\* after it: entry 1 is displayed while the index is 2.
C14_Witness ==
    /\ calls = <<>>
    /\ lastEvent = <<"load", "nextImage", 0>>
    /\ ShownAndLocked
    /\ currentGallery = Array(galleryData.sakura)
    /\ currentImageIndex = Num(2)
    /\ Displays(galleryImages, galleryData.sakura[2])

FlagsAgree ==
    /\ modalDisplay = "block" <=> bodyOverflow = "hidden"
    /\ modalDisplay = "block" <=> keydownListener

\* C18: in every reachable state the modal is visible if and only if page
\* scroll is disabled, if and only if the key handler is registered; so a
\* key press is handled only while the modal is visible, and never changes
\* the index while it is hidden.
C18_FlagsAgree ==
    /\ []FlagsAgree
    /\ [][/\ lastEvent'[1] = "keydown" => modalDisplay = "block"
          /\ (modalDisplay # "block" /\ currentImageIndex' # currentImageIndex)
                => lastEvent'[1] \in {"openGallery", "prevImage", "nextImage"}]_vars

\* nextImage ran while the first image of openGallery was pending; that
\* image has now loaded.
C18_Witness ==
    /\ lastEvent = <<"load", "openGallery", 0>>
    /\ ShownAndLocked
    /\ currentImageIndex = Num(1)
    /\ Len(calls) = 1

C3_OptimizeAlwaysResolves ==
    /\ \A i \in 1..MaxDirectCalls :
          (i <= Len(calls)) ~> (i <= Len(calls) /\ calls[i].promise = "fulfilled")
    /\ [](\A i \in 1..Len(calls) : calls[i].promise # "rejected")

\* C4 as stated: after a failed decode the promise is fulfilled with the
\* source URL itself; after a successful decode it is fulfilled with the
\* re-encoded, resized image; the caller has a value in both cases.
C4_ValueInBothCases ==
    \A i \in 1..Len(calls) :
       LET c == calls[i]
       IN  /\ c.event = "error" => c.promise = "fulfilled" /\ c.value = Url(c.src)
           /\ c.event = "load" =>
                 /\ c.promise = "fulfilled"
                 /\ c.value.type = "data:image/jpeg"
                 /\ c.value.src = c.src
                 /\ c.value.width <= c.maxWidth

\* ------------------------------------------------------------------------
\* Properties of the size calculator (under SpecSize)
\* ------------------------------------------------------------------------

\* C5: an image no wider than maxWidth keeps its size, and no returned
\* width exceeds the original width; (600, 400, 800) gives (600, 400).
C5_NoUpscale ==
    sizeOut # NoSize =>
       /\ sizeIn.originalWidth <= sizeIn.maxWidth =>
             sizeOut = [width |-> sizeIn.originalWidth,
                        height |-> sizeIn.originalHeight]
       /\ sizeOut.width <= sizeIn.originalWidth
       /\ calculateOptimalSize(600, 400, 800) = [width |-> 600, height |-> 400]

C5_Witness ==
    /\ sizeIn = [originalWidth |-> 6, originalHeight |-> 4, maxWidth |-> 8]
    /\ sizeOut = [width |-> 6, height |-> 4]

Downscaled ==
    /\ sizeOut # NoSize
    /\ sizeIn.originalWidth > sizeIn.maxWidth
    /\ sizeIn.originalHeight > 0
    /\ sizeIn.maxWidth > 0

\* C6 as stated: a wider image gets width maxWidth and height
\* round(maxWidth * originalHeight / originalWidth), halves rounded up.
C6_HeightRoundsHalfUp ==
    Downscaled =>
       /\ sizeOut.width = sizeIn.maxWidth
       /\ sizeOut.height =
             (2 * sizeIn.maxWidth * sizeIn.originalHeight + sizeIn.originalWidth)
                \div (2 * sizeIn.originalWidth)

\* C6 amended: a wider image gets width maxWidth and a height within one
\* half of maxWidth * originalHeight / originalWidth: the nearest integer,
\* and either neighbour when the exact height ends in one half;
\* (1600, 900, 800) gives (800, 450).
C6_HeightNearest ==
    Downscaled =>
       LET exact2 == 2 * sizeIn.maxWidth * sizeIn.originalHeight
           got2   == 2 * sizeOut.height * sizeIn.originalWidth
       IN  /\ sizeOut.width = sizeIn.maxWidth
           /\ got2 - exact2 <= sizeIn.originalWidth
           /\ exact2 - got2 <= sizeIn.originalWidth
           /\ calculateOptimalSize(1600, 900, 800) = [width |-> 800, height |-> 450]

C6_Witness ==
    /\ sizeIn = [originalWidth |-> 18, originalHeight |-> 7, maxWidth |-> 9]
    /\ sizeOut = [width |-> 9, height |-> 3]

\* ------------------------------------------------------------------------
\* Properties of the lazy-load controller (under SpecLazy)
\* ------------------------------------------------------------------------

Pending(el) ==
    el.dataSrc # <<>> /\ el.opacity = "" /\ el.filter = "" /\ el.src = NoValue

IsLoading(el) ==
    el.dataSrc # <<>> /\ el.opacity = "0.5" /\ el.filter = "blur(5px)"
       /\ el.src = NoValue

Loaded(e, el) ==
    /\ el.dataSrc = <<>> /\ el.opacity = "1" /\ el.filter = "none"
    /\ \/ el.src.type = "data:image/jpeg" /\ el.src.src = DataSrc(e)
       \/ el.src = Url(DataSrc(e))

C16_LoadingEventuallyEnds ==
    \A e \in Images : IsLoading(imgs[e]) ~> Loaded(e, imgs[e])

\* C17: the call made for an element at its first intersection gets the
\* element's data-src, the width of the viewport at the most recent page
\* load or resize (400 below 768, 600 below 1200, otherwise 800), which
\* replaces the element's own data-max-width and the default, and the
\* element's data-quality or else 0.8; a later resize leaves the calls in
\* flight as they are.
C17_WidthAndQualityPassed ==
    [][/\ lastEvent'[1] = "intersection" =>
             \A e \in Images :
                loads'[e] > loads[e] =>
                   \E i \in (Len(calls) + 1)..Len(calls') :
                      /\ calls'[i].caller.el = e
                      /\ calls'[i].src = DataSrc(e)
                      /\ calls'[i].maxWidth =
                            (IF innerWidth < 768 THEN 400
                             ELSE IF innerWidth < 1200 THEN 600 ELSE 800)
                      /\ calls'[i].quality =
                            (IF Markup(e).dataQuality = <<>> THEN 80
                             ELSE Markup(e).dataQuality[1])
       /\ lastEvent'[1] = "resize" => calls' = calls]_vars

\* Element 2 started loading at viewport width 1400; the window was then
\* resized to 500.
C17_Witness ==
    /\ lastEvent = <<"resize", "", 500>>
    /\ \E i \in 1..Len(calls) :
          /\ calls[i].caller.el = 2
          /\ calls[i].maxWidth = 800
          /\ calls[i].quality = 50
    /\ imgs[2].dataMaxWidth = <<400>>
    /\ IsLoading(imgs[2])

\* ------------------------------------------------------------------------
\* Properties of the accordion (under SpecAccordion)
\* ------------------------------------------------------------------------

ExpandedItems == {i \in ItemIndices : accordionItems[i].active}

\* C11: from a page with at most one item expanded, after any sequence of
\* toggleAccordion calls at most one item is expanded.
C11_AtMostOneExpanded == Cardinality(ExpandedItems) <= 1

\* Item 0 was opened, then item 2: only item 2 is expanded.
C11_Witness ==
    /\ toggles = <<0, 2>>
    /\ ExpandedItems = {2}

AllCollapsed == [i \in ItemIndices |-> Collapsed]

OnlyExpanded(items, j) ==
    items = [i \in ItemIndices |-> IF i = j THEN Expanded ELSE Collapsed]

\* C12: toggleAccordion(i) on an expanded item leaves every item collapsed;
\* on an item that is not expanded it leaves exactly item i expanded.  Hence
\* from the fully collapsed page two calls on i give the fully collapsed
\* page again, and a call on i then one on j # i leaves exactly j expanded.
C12_ToggleOpensOrCloses ==
    [][(lastEvent'[1] = "toggleAccordion" /\ lastEvent'[3] \in ItemIndices) =>
          LET i == lastEvent'[3]
          IN  /\ accordionItems[i].active => accordionItems' = AllCollapsed
              /\ ~accordionItems[i].active => OnlyExpanded(accordionItems', i)
              /\ toggleAccordion(toggleAccordion(AllCollapsed, i), i) = AllCollapsed
              /\ \A j \in ItemIndices \ {i} :
                    OnlyExpanded(toggleAccordion(toggleAccordion(AllCollapsed, i), j), j)
      ]_vars

\* Item 1 was toggled twice: every item is collapsed.
C12_Witness ==
    /\ toggles = <<1, 1>>
    /\ accordionItems = AllCollapsed

=============================================================================
